---- MODULE Spec2Model ----
(***************************************************************************)
(* Model of FastKeyTracker and of the part of SelectionAutocompleteFastCombo*)
(* that constructs and drives it (selection_autocomplete_popup_configurable *)
(* .py).                                                                    *)
(*                                                                          *)
(* Three threads touch the tracker: "L", the main thread during            *)
(* construction and the pynput listener thread afterwards (callbacks are    *)
(* delivered one at a time), "M", the chain of threading.Timer threads that *)
(* run monitor(), and "P", a popup worker thread while its selection        *)
(* callback runs force_reset.  The code takes no lock, so every access to a *)
(* shared field (key_states, combination_start_time, last_activity, the     *)
(* stuck counter, popup_active) is a step of its own and the threads        *)
(* interleave freely.  The worker threads started by handle_completion are  *)
(* followed through the points at which they read or write popup_active or *)
(* call the tracker; what they fetch, generate and inject is I/O, of which  *)
(* the model keeps the outcome only.                                        *)
(*                                                                          *)
(* The clock counts tenths of a second.  It advances by Quantum between     *)
(* operations: an operation of the tracker does no I/O and is taken to      *)
(* finish within one quantum, and a timer that is due is taken to fire      *)
(* before the clock advances again.  Where in the quantum the monitor runs, *)
(* relative to the steps of the listener, is free.                          *)
(***************************************************************************)
EXTENDS Integers, Sequences, FiniteSets, TLC

\* ---------------------------------------------------------------- bounds
Quantum == 8            \* clock granularity, tenths of a second
MaxTime == 57           \* the clock stops advancing here
MaxPresses == 3         \* on_key_press calls in one run
MaxAppPresses == 4      \* the same, in the runs of AppSpec
MaxRequests == 2        \* completions accepted in the runs of AppSpec
AppQuantum == 16        \* clock granularity of AppSpec after the first tick

\* ------------------------------------------------------ program constants
CombinationTimeout == 8     \* combination_timeout = 0.8 s
MaxKeyHoldTime == 20        \* max_key_hold_time = 2.0 s, the fallback
LongKeyHoldTime == 56       \* max_key_hold_time = 5.6 s, set in [timing]
CleanupInterval == 5        \* cleanup_interval = 0.5 s
InactivityLimit == 50       \* 5.0 s in monitor()
NoneTime == 0               \* None, for combination_start_time
InitTime == 1               \* time.time() when the tracker is constructed
CompletionCooldown == 3     \* completion_cooldown = 0.3 s, the fallback
LongAgo == -1000            \* last_completion_time = 0, the epoch

ModifierKeys == {"ctrl", "shift", "alt"}
PressKeys == {"ctrl", "alt", "r"}          \* keys the listener delivers
ResetCombo == <<"ctrl", "alt", "r">>

\* the configuration file: the '+'-separated parts of quick_completion and
\* popup_completion of [keybindings], and max_key_hold_time of [timing]
Configs ==
  { [quick |-> <<"ctrl", "r">>, popup |-> <<"ctrl", "r">>,
     hold |-> MaxKeyHoldTime],
    [quick |-> <<"r">>,         popup |-> <<"alt", "r">>,
     hold |-> LongKeyHoldTime],
    [quick |-> <<"ctrl">>,      popup |-> <<"alt", "r">>,
     hold |-> MaxKeyHoldTime],
    [quick |-> <<"ctrl", "r">>, popup |-> <<"">>,
     hold |-> MaxKeyHoldTime] }

Threads == {"L", "M", "P"}

VARIABLES
  now,          \* time.time()
  key_states,   \* dict key -> press_time, in insertion order
  combinations, \* dict name -> frozenset of keys, in insertion order
  combination_start_time,
  last_activity,
  stats,        \* the tracker's four counters
  pc,           \* position of each thread
  lkey,         \* on_key_press / on_key_release: key ("None" outside a call)
  lct,          \* on_key_press: current_time (0 outside a call)
  mct,          \* monitor: current_time (0 outside a call)
  stuck,        \* cleanup_stuck_keys: stuck_keys, per thread
  tmp,          \* cleanup_stuck_keys: the counter value read by +=, per thread
  cur,          \* check_combinations: current_keys
  ret,          \* combination = self.key_tracker.on_key_press(key)
  timers,       \* due times of the pending threading.Timer objects
  phase,        \* the application's life cycle
  config,       \* the key bindings read by load_config
  added,        \* history: the add_combination calls of setup, in order:
                \* name, keys, the flag returned and the table left
  err,          \* exception that left a thread, per thread ("" if none)
  held,         \* history: keys of key_states right after line 289
  pre,          \* history: the tracker when the running on_key_press began
  last,         \* history: the name the last completed on_key_press
                \* returned, until the next one reaches line 289
  due,          \* history: the running watchdog tick began with a key held
                \* and last_activity more than 5.0 s old, and the listener
                \* and the popup thread have started no operation since
                \* the tick began
  evicted,      \* history: the number of keys cleanup_stuck_keys deleted
  prev,         \* history: the name the last match returned, "None" once
                \* an on_key_release has been called since
  popup_active, \* self.popup_active
  last_completion_time,
  app,          \* the application's request and reset counters
  workers       \* the threads handle_completion started: how many are at
                \* each stage (a _quick_worker reads and writes nothing of
                \* the tracker and not popup_active: it is "run" from its
                \* start on, running or finished)

vars == <<now, key_states, combinations, combination_start_time, last_activity,
          stats, pc, lkey, lct, mct, stuck, tmp, cur, ret, timers, phase,
          config, added, err, held, pre, last, due, evicted,
          prev, popup_active, last_completion_time, app, workers>>

\* the fields of SelectionAutocompleteFastCombo and its worker threads
appvars == <<popup_active, last_completion_time, app, workers>>

\* the tracker, the clock and the history variables: all but pc and appvars
tracker == <<now, key_states, combinations, combination_start_time,
             last_activity, stats, lkey, lct, mct, stuck, tmp, cur, ret,
             timers, phase, config, added, err, held, pre, last, due,
             evicted, prev>>

\* self.max_key_hold_time, read from the configuration at construction
max_key_hold_time == config.hold

\* ------------------------------------------------------------ dict helpers
RECURSIVE SeqToSet(_)
SeqToSet(s) == IF s = <<>> THEN {} ELSE {Head(s)} \cup SeqToSet(Tail(s))

DictKeys(d) == {d[i].k : i \in 1..Len(d)}
DictHas(d, k) == \E i \in 1..Len(d) : d[i].k = k
DictGet(d, k) == d[CHOOSE i \in 1..Len(d) : d[i].k = k].v
\* d[k] = v: an existing key keeps its position
DictPut(d, k, v) ==
  IF DictHas(d, k)
  THEN [i \in 1..Len(d) |-> IF d[i].k = k THEN [k |-> k, v |-> v] ELSE d[i]]
  ELSE Append(d, [k |-> k, v |-> v])
DictDel(d, k) == SelectSeq(d, LAMBDA e : e.k # k)

\* --------------------------------------------------------- pure functions
\* parse_key_combination, over the parts of key_string.split('+') after
\* strip().lower(): a known part appends its key, any other part is dropped
NamedKeys == {"ctrl", "shift", "alt", "space", "tab", "enter"}
Letters == {"r"}
RECURSIVE parse_key_combination(_)
parse_key_combination(parts) ==
  IF parts = <<>> THEN <<>>
  ELSE IF Head(parts) \in NamedKeys \cup Letters
       THEN <<Head(parts)>> \o parse_key_combination(Tail(parts))
       ELSE parse_key_combination(Tail(parts))

\* add_combination without the single-modifier test of line 243, a variant
\* C9_RegistrationValidation tells from the code
add_combination_NoModifierTest(c, name, keys) ==
  LET key_set == SeqToSet(keys) IN
  IF Cardinality(key_set) = 0
  THEN [ok |-> FALSE, c |-> c]
  ELSE [ok |-> TRUE, c |-> DictPut(c, name, key_set)]

\* add_combination without the empty-set test of line 237, a variant
\* C11_KeySetSize tells from the code
add_combination_NoEmptyTest(c, name, keys) ==
  LET key_set == SeqToSet(keys) IN
  IF Cardinality(key_set) = 1 /\ key_set \subseteq ModifierKeys
  THEN [ok |-> FALSE, c |-> c]
  ELSE [ok |-> TRUE, c |-> DictPut(c, name, key_set)]

\* add_combination(name, keys) on table c: the returned flag and the table
add_combination(c, name, keys) ==
  LET key_set == SeqToSet(keys) IN
  IF Cardinality(key_set) = 0
  THEN [ok |-> FALSE, c |-> c]
  ELSE IF Cardinality(key_set) = 1 /\ key_set \subseteq ModifierKeys
  THEN [ok |-> FALSE, c |-> c]
  ELSE [ok |-> TRUE, c |-> DictPut(c, name, key_set)]

\* check_combinations with `required_keys <= current_keys` in place of the
\* equality of line 331, a variant C1_ExactMatch tells from the code
MatchIn_Subset(c, current_keys) ==
  IF current_keys = {} THEN "None"
  ELSE IF \E i \in 1..Len(c) : c[i].v \subseteq current_keys
       THEN c[CHOOSE i \in 1..Len(c) :
                /\ c[i].v \subseteq current_keys
                /\ \A j \in 1..(i-1) : ~(c[j].v \subseteq current_keys)].k
       ELSE "None"

\* check_combinations returning the last entry equal to current_keys (a
\* loop without the return inside), a variant C23_FirstMatchWins tells from
\* the code
MatchIn_Last(c, current_keys) ==
  IF current_keys = {} THEN "None"
  ELSE IF \E i \in 1..Len(c) : c[i].v = current_keys
       THEN c[CHOOSE i \in 1..Len(c) :
                /\ c[i].v = current_keys
                /\ \A j \in (i+1)..Len(c) : c[j].v # current_keys].k
       ELSE "None"

\* the loop of check_combinations over table c for current_keys: the name
\* of the first entry whose key set equals current_keys, "None" if there
\* is none or current_keys is empty
MatchIn(c, current_keys) ==
  IF current_keys = {} THEN "None"
  ELSE IF \E i \in 1..Len(c) : c[i].v = current_keys
       THEN c[CHOOSE i \in 1..Len(c) :
                /\ c[i].v = current_keys
                /\ \A j \in 1..(i-1) : c[j].v # current_keys].k
       ELSE "None"

\* a sweep that stops at the first stale key, a variant C4_Eviction tells
\* from the code
StuckKeys_First(ks, t) ==
  LET old == SelectSeq(ks, LAMBDA e : t - e.v > max_key_hold_time)
  IN  IF old = <<>> THEN <<>> ELSE <<old[1].k>>

\* the keys of key_states held longer than max_key_hold_time at time t, in
\* the order of the dict
StuckKeys(ks, t) ==
  LET old == SelectSeq(ks, LAMBDA e : t - e.v > max_key_hold_time)
  IN  [i \in 1..Len(old) |-> old[i].k]

ZeroStats == [total_key_presses |-> 0, combinations_detected |-> 0,
              combinations_timeout |-> 0, stuck_keys_cleaned |-> 0]

ZeroApp == [quick_requests |-> 0, popup_requests |-> 0, key_resets |-> 0]

\* where a worker thread is: a quick worker runs ("run"); a popup worker
\* fetches the context ("ctx"), generates the options with popup_active set
\* ("gen"), shows its window ("popup"), and after the callback calls
\* force_reset ("reset", "resetting")
WorkerStages == {"run", "ctx", "gen", "popup", "reset", "resetting"}
NoWorkers == [s \in WorkerStages |-> 0]

NoPre == [ks |-> <<>>, start |-> NoneTime, stats |-> ZeroStats, ok |-> FALSE]

\* ------------------------------------------------------------------- Init
\* FastKeyTracker.__init__ has run inside SelectionAutocompleteFastCombo.
\* __init__: empty tracker, and start_monitoring has run monitor() once on
\* the empty tracker and armed the first timer.
Init ==
  /\ now = InitTime
  /\ key_states = <<>>
  /\ combinations = <<>>
  /\ combination_start_time = NoneTime
  /\ last_activity = InitTime
  /\ stats = ZeroStats
  /\ pc = [th \in Threads |-> "idle"]
  /\ lkey = "None"
  /\ lct = 0
  /\ mct = 0
  /\ stuck = [th \in Threads |-> <<>>]
  /\ tmp = [th \in Threads |-> 0]
  /\ cur = {}
  /\ ret = "None"
  /\ timers = <<InitTime + CleanupInterval>>
  /\ phase = "setup"
  /\ config \in Configs
  /\ added = <<>>
  /\ err = [th \in Threads |-> ""]
  /\ held = {}
  /\ pre = NoPre
  /\ last = "None"
  /\ due = FALSE
  /\ evicted = 0
  /\ prev = "None"
  /\ popup_active = FALSE
  /\ last_completion_time = LongAgo
  /\ app = ZeroApp
  /\ workers = NoWorkers

\* ---------------------------------------------------------------- helpers
Goto(th, p) == pc' = [pc EXCEPT ![th] = p]

\* threading.Thread(...).start() in handle_completion; a worker going from
\* one stage to the next; a worker returning
Started(p) == [workers EXCEPT ![p] = @ + 1]
Moved(p, q) == [workers EXCEPT ![p] = @ - 1, ![q] = @ + 1]
Ended(p) == [workers EXCEPT ![p] = @ - 1]

\* An exception leaves the running operation.  In the listener thread it
\* leaves the callback: pynput stops the listener and re-raises from
\* listener.join(), which start() does not catch.  In monitor() it is caught
\* and logged by the except clause, after which no timer is armed.
Raise(th, e) ==
  /\ err' = [err EXCEPT ![th] = e]
  /\ pc' = [pc EXCEPT ![th] = IF th = "L" THEN "crashed" ELSE "dead"]
  /\ phase' = IF th = "L" THEN "crashed" ELSE phase

Busy(th) == pc[th] \notin {"idle", "crashed", "dead"}

\* pre holds the tracker as on_key_press found it at line 266; pre.ok says
\* that the watchdog thread has written no field of the tracker since
Written(th) ==
  pre' = IF th # "L" /\ pre.ok THEN [pre EXCEPT !.ok = FALSE] ELSE pre

\* where cleanup_stuck_keys and force_reset return to
AfterCleanup(th) == IF th = "L" THEN "p_empty" ELSE "m_la"
AfterReset(th) ==
  IF th = "L" THEN "er_done" ELSE IF th = "M" THEN "m_sched" ELSE "fr_ret"

\* ---------------------------------------------------- cleanup_stuck_keys
\* current_time = time.time(); the loop over list(self.key_states.items())
CleanupScan(th) ==
  /\ pc[th] = "cl_scan"
  /\ stuck' = [stuck EXCEPT ![th] = StuckKeys(key_states, now)]
  /\ Goto(th, IF stuck'[th] = <<>> THEN AfterCleanup(th) ELSE "cl_load")
  /\ UNCHANGED <<now, key_states, combinations, combination_start_time,
                 last_activity, stats, lkey, lct, mct, tmp, cur, ret, timers,
                 phase, config, added, err, held>>
  /\ UNCHANGED <<pre, last>>
  /\ UNCHANGED <<due, evicted, prev>>
  /\ UNCHANGED appvars

\* self.stats['stuck_keys_cleaned'] += len(stuck_keys): the read ...
CleanupLoad(th) ==
  /\ pc[th] = "cl_load"
  /\ tmp' = [tmp EXCEPT ![th] = stats.stuck_keys_cleaned]
  /\ Goto(th, "cl_store")
  /\ UNCHANGED <<now, key_states, combinations, combination_start_time,
                 last_activity, stats, lkey, lct, mct, stuck, cur, ret, timers,
                 phase, config, added, err, held>>
  /\ UNCHANGED <<pre, last>>
  /\ UNCHANGED <<due, evicted, prev>>
  /\ UNCHANGED appvars

\* ... and the write
CleanupStore(th) ==
  /\ pc[th] = "cl_store"
  /\ stats' = [stats EXCEPT !.stuck_keys_cleaned = tmp[th] + Len(stuck[th])]
  /\ tmp' = [tmp EXCEPT ![th] = 0]
  /\ Goto(th, "cl_del")
  /\ UNCHANGED <<now, key_states, combinations, combination_start_time,
                 last_activity, lkey, lct, mct, stuck, cur, ret, timers,
                 phase, config, added, err, held>>
  /\ Written(th)
  /\ UNCHANGED last
  /\ UNCHANGED <<due, evicted, prev>>
  /\ UNCHANGED appvars

\* del self.key_states[key], for the next key of stuck_keys
CleanupDel(th) ==
  /\ pc[th] = "cl_del"
  /\ stuck' = [stuck EXCEPT ![th] = Tail(stuck[th])]
  /\ IF DictHas(key_states, Head(stuck[th]))
     THEN /\ key_states' = DictDel(key_states, Head(stuck[th]))
          /\ Goto(th, IF stuck'[th] = <<>> THEN "cl_chk" ELSE "cl_del")
          /\ UNCHANGED <<err, phase>>
     ELSE /\ Raise(th, "KeyError")
          /\ UNCHANGED key_states
  /\ UNCHANGED <<now, combinations, combination_start_time, last_activity,
                 stats, lkey, lct, mct, tmp, cur, ret, timers, config, added,
                 held>>
  /\ IF th = "L" /\ ~DictHas(key_states, Head(stuck[th]))
     THEN pre' = NoPre
     ELSE Written(th)
  /\ UNCHANGED last
  /\ due' = (due /\ DictHas(key_states, Head(stuck[th])))
  /\ evicted' = evicted + (IF DictHas(key_states, Head(stuck[th])) THEN 1 ELSE 0)
  /\ UNCHANGED prev
  /\ UNCHANGED appvars

\* if not self.key_states:
CleanupChk(th) ==
  /\ pc[th] = "cl_chk"
  /\ Goto(th, IF key_states = <<>> THEN "cl_clr" ELSE AfterCleanup(th))
  /\ UNCHANGED <<now, key_states, combinations, combination_start_time,
                 last_activity, stats, lkey, lct, mct, stuck, tmp, cur, ret,
                 timers, phase, config, added, err, held>>
  /\ UNCHANGED <<pre, last>>
  /\ UNCHANGED <<due, evicted, prev>>
  /\ UNCHANGED appvars

\*     self.combination_start_time = None
CleanupClr(th) ==
  /\ pc[th] = "cl_clr"
  /\ combination_start_time' = NoneTime
  /\ Goto(th, AfterCleanup(th))
  /\ UNCHANGED <<now, key_states, combinations, last_activity, stats, lkey,
                 lct, mct, stuck, tmp, cur, ret, timers, phase, config, added,
                 err, held>>
  /\ Written(th)
  /\ UNCHANGED last
  /\ UNCHANGED <<due, evicted, prev>>
  /\ UNCHANGED appvars

\* ------------------------------------------------------------ force_reset
\* if self.key_states:
ResetChk(th) ==
  /\ pc[th] = "fr_chk"
  /\ Goto(th, IF key_states # <<>> THEN "fr_clear" ELSE "fr_start")
  /\ UNCHANGED <<now, key_states, combinations, combination_start_time,
                 last_activity, stats, lkey, lct, mct, stuck, tmp, cur, ret,
                 timers, phase, config, added, err, held>>
  /\ UNCHANGED <<pre, last>>
  /\ UNCHANGED <<due, evicted, prev>>
  /\ UNCHANGED appvars

\* force_reset without the clear of line 391, a variant C17_ForceReset
\* tells from the code
ResetClear_Skip(th) ==
  /\ pc[th] = "fr_clear"
  /\ Goto(th, "fr_start")
  /\ UNCHANGED <<now, key_states, combinations, combination_start_time,
                 last_activity, stats, lkey, lct, mct, stuck, tmp, cur, ret,
                 timers, phase, config, added, err, held>>
  /\ Written(th)
  /\ UNCHANGED last
  /\ UNCHANGED <<due, evicted, prev>>
  /\ UNCHANGED appvars

\*     self.key_states.clear()
ResetClear(th) ==
  /\ pc[th] = "fr_clear"
  /\ key_states' = <<>>
  /\ Goto(th, "fr_start")
  /\ UNCHANGED <<now, combinations, combination_start_time, last_activity,
                 stats, lkey, lct, mct, stuck, tmp, cur, ret, timers, phase,
                 config, added, err, held>>
  /\ Written(th)
  /\ UNCHANGED last
  /\ UNCHANGED <<due, evicted, prev>>
  /\ UNCHANGED appvars

\* self.combination_start_time = None
ResetStart(th) ==
  /\ pc[th] = "fr_start"
  /\ combination_start_time' = NoneTime
  /\ Goto(th, "fr_la")
  /\ UNCHANGED <<now, key_states, combinations, last_activity, stats, lkey,
                 lct, mct, stuck, tmp, cur, ret, timers, phase, config, added,
                 err, held>>
  /\ Written(th)
  /\ UNCHANGED last
  /\ UNCHANGED <<due, evicted, prev>>
  /\ UNCHANGED appvars

\* self.last_activity = time.time()
ResetLa(th) ==
  /\ pc[th] = "fr_la"
  /\ last_activity' = now
  /\ Goto(th, AfterReset(th))
  /\ UNCHANGED <<now, key_states, combinations, combination_start_time, stats,
                 lkey, lct, mct, stuck, tmp, cur, ret, timers, phase, config,
                 added, err, held>>
  /\ Written(th)
  /\ UNCHANGED last
  /\ UNCHANGED <<due, evicted, prev>>
  /\ UNCHANGED appvars

\* on_key_press without line 270, a variant C13_SweepFirst tells from the
\* code
PressBegin_NoSweep(k) ==
  /\ phase = "listening"
  /\ pc["L"] = "idle"
  /\ ~popup_active
  /\ lkey' = k
  /\ lct' = now
  /\ stats' = [stats EXCEPT !.total_key_presses = @ + 1]
  /\ Goto("L", "p_empty")
  /\ UNCHANGED <<now, key_states, combinations, combination_start_time,
                 last_activity, mct, stuck, tmp, cur, ret, timers, phase,
                 config, added, err, held>>
  /\ pre' = [ks |-> key_states, start |-> combination_start_time,
             stats |-> stats, ok |-> TRUE]
  /\ UNCHANGED last
  /\ due' = FALSE
  /\ UNCHANGED <<evicted, prev>>
  /\ UNCHANGED appvars

\* ----------------------------------------------------------- on_key_press
\* The listener delivers a press while popup_active is false (while it is
\* true SelectionAutocompleteFastCombo.on_key_press returns at once):
\* current_time = time.time(); the press counter; then cleanup_stuck_keys()
PressBegin(k) ==
  /\ phase = "listening"
  /\ pc["L"] = "idle"
  /\ ~popup_active
  /\ lkey' = k
  /\ lct' = now
  /\ stats' = [stats EXCEPT !.total_key_presses = @ + 1]
  /\ Goto("L", "cl_scan")
  /\ UNCHANGED <<now, key_states, combinations, combination_start_time,
                 last_activity, mct, stuck, tmp, cur, ret, timers, phase,
                 config, added, err, held>>
  /\ pre' = [ks |-> key_states, start |-> combination_start_time,
             stats |-> stats, ok |-> TRUE]
  /\ UNCHANGED last
  /\ due' = FALSE
  /\ UNCHANGED <<evicted, prev>>
  /\ UNCHANGED appvars

\* if not self.key_states:
PressEmpty ==
  /\ pc["L"] = "p_empty"
  /\ Goto("L", IF key_states = <<>> THEN "p_start" ELSE "p_rd1")
  /\ UNCHANGED <<now, key_states, combinations, combination_start_time,
                 last_activity, stats, lkey, lct, mct, stuck, tmp, cur, ret,
                 timers, phase, config, added, err, held>>
  /\ UNCHANGED <<pre, last>>
  /\ UNCHANGED <<due, evicted, prev>>
  /\ UNCHANGED appvars

\*     self.combination_start_time = current_time
PressStart ==
  /\ pc["L"] = "p_start"
  /\ combination_start_time' = lct
  /\ Goto("L", "p_record")
  /\ UNCHANGED <<now, key_states, combinations, last_activity, stats, lkey,
                 lct, mct, stuck, tmp, cur, ret, timers, phase, config, added,
                 err, held>>
  /\ UNCHANGED <<pre, last>>
  /\ UNCHANGED <<due, evicted, prev>>
  /\ UNCHANGED appvars

\* elif self.combination_start_time and ...: the first read, for its truth
PressRd1 ==
  /\ pc["L"] = "p_rd1"
  /\ Goto("L", IF combination_start_time # NoneTime THEN "p_rd2" ELSE "p_record")
  /\ UNCHANGED <<now, key_states, combinations, combination_start_time,
                 last_activity, stats, lkey, lct, mct, stuck, tmp, cur, ret,
                 timers, phase, config, added, err, held>>
  /\ UNCHANGED <<pre, last>>
  /\ UNCHANGED <<due, evicted, prev>>
  /\ UNCHANGED appvars

\* line 279 with >= in place of >, a variant C3_Timeout tells from the code
PressRd2_Inclusive ==
  /\ pc["L"] = "p_rd2"
  /\ IF combination_start_time = NoneTime
     THEN /\ Raise("L", "TypeError")
          /\ UNCHANGED stats
     ELSE /\ IF lct - combination_start_time >= CombinationTimeout
             THEN /\ stats' = [stats EXCEPT !.combinations_timeout = @ + 1]
                  /\ Goto("L", "p_to_clear")
             ELSE /\ Goto("L", "p_record")
                  /\ UNCHANGED stats
          /\ UNCHANGED <<err, phase>>
  /\ UNCHANGED <<now, key_states, combinations, combination_start_time,
                 last_activity, lkey, lct, mct, stuck, tmp, cur, ret, timers,
                 config, added, held>>
  /\ pre' = IF combination_start_time = NoneTime THEN NoPre ELSE pre
  /\ UNCHANGED last
  /\ UNCHANGED <<due, evicted, prev>>
  /\ UNCHANGED appvars

\* ... (current_time - self.combination_start_time) > self.combination_timeout:
\* the second read (float - None is a TypeError), and on a timeout the
\* timeout counter
PressRd2 ==
  /\ pc["L"] = "p_rd2"
  /\ IF combination_start_time = NoneTime
     THEN /\ Raise("L", "TypeError")
          /\ UNCHANGED stats
     ELSE /\ IF lct - combination_start_time > CombinationTimeout
             THEN /\ stats' = [stats EXCEPT !.combinations_timeout = @ + 1]
                  /\ Goto("L", "p_to_clear")
             ELSE /\ Goto("L", "p_record")
                  /\ UNCHANGED stats
          /\ UNCHANGED <<err, phase>>
  /\ UNCHANGED <<now, key_states, combinations, combination_start_time,
                 last_activity, lkey, lct, mct, stuck, tmp, cur, ret, timers,
                 config, added, held>>
  /\ pre' = IF combination_start_time = NoneTime THEN NoPre ELSE pre
  /\ UNCHANGED last
  /\ UNCHANGED <<due, evicted, prev>>
  /\ UNCHANGED appvars

\*     self.key_states.clear()
PressToClear ==
  /\ pc["L"] = "p_to_clear"
  /\ key_states' = <<>>
  /\ Goto("L", "p_to_start")
  /\ UNCHANGED <<now, combinations, combination_start_time, last_activity,
                 stats, lkey, lct, mct, stuck, tmp, cur, ret, timers, phase,
                 config, added, err, held>>
  /\ UNCHANGED <<pre, last>>
  /\ UNCHANGED <<due, evicted, prev>>
  /\ UNCHANGED appvars

\*     self.combination_start_time = current_time
PressToStart ==
  /\ pc["L"] = "p_to_start"
  /\ combination_start_time' = lct
  /\ Goto("L", "p_record")
  /\ UNCHANGED <<now, key_states, combinations, last_activity, stats, lkey,
                 lct, mct, stuck, tmp, cur, ret, timers, phase, config, added,
                 err, held>>
  /\ UNCHANGED <<pre, last>>
  /\ UNCHANGED <<due, evicted, prev>>
  /\ UNCHANGED appvars

\* line 289 guarded by `if key not in self.key_states`, a variant
\* C22_RePress tells from the code
PressRecord_KeepTime ==
  /\ pc["L"] = "p_record"
  /\ key_states' = IF DictHas(key_states, lkey) THEN key_states
                   ELSE DictPut(key_states, lkey, lct)
  /\ held' = DictKeys(key_states')
  /\ last' = "None"
  /\ Goto("L", "p_la")
  /\ UNCHANGED <<now, combinations, combination_start_time, last_activity,
                 stats, lkey, lct, mct, stuck, tmp, cur, ret, timers, phase,
                 config, added, err>>
  /\ UNCHANGED pre
  /\ UNCHANGED <<due, evicted, prev>>
  /\ UNCHANGED appvars

\* self.key_states[key] = current_time
PressRecord ==
  /\ pc["L"] = "p_record"
  /\ key_states' = DictPut(key_states, lkey, lct)
  /\ held' = DictKeys(key_states')
  /\ last' = "None"
  /\ Goto("L", "p_la")
  /\ UNCHANGED <<now, combinations, combination_start_time, last_activity,
                 stats, lkey, lct, mct, stuck, tmp, cur, ret, timers, phase,
                 config, added, err>>
  /\ UNCHANGED pre
  /\ UNCHANGED <<due, evicted, prev>>
  /\ UNCHANGED appvars

\* on_key_press without line 290, a variant C27_SerialNoWatchdogReset tells
\* from the code
PressLa_Skip ==
  /\ pc["L"] = "p_la"
  /\ Goto("L", "ck_snap")
  /\ UNCHANGED <<now, key_states, combinations, combination_start_time, stats,
                 last_activity, lkey, lct, mct, stuck, tmp, cur, ret, timers,
                 phase, config, added, err, held>>
  /\ UNCHANGED <<pre, last>>
  /\ UNCHANGED <<due, evicted, prev>>
  /\ UNCHANGED appvars

\* self.last_activity = current_time
PressLa ==
  /\ pc["L"] = "p_la"
  /\ last_activity' = lct
  /\ Goto("L", "ck_snap")
  /\ UNCHANGED <<now, key_states, combinations, combination_start_time, stats,
                 lkey, lct, mct, stuck, tmp, cur, ret, timers, phase, config,
                 added, err, held>>
  /\ UNCHANGED <<pre, last>>
  /\ UNCHANGED <<due, evicted, prev>>
  /\ UNCHANGED appvars

\* ------------------------------------------------------ check_combinations
\* current_keys = frozenset(self.key_states.keys()); the loop over the
\* table; on a match the detected counter, otherwise return None
CheckSnap ==
  /\ pc["L"] = "ck_snap"
  /\ cur' = DictKeys(key_states)
  /\ IF MatchIn(combinations, cur') = "None"
     THEN /\ ret' = "None"
          /\ Goto("L", "p_ret")
          /\ UNCHANGED stats
     ELSE /\ stats' = [stats EXCEPT !.combinations_detected = @ + 1]
          /\ Goto("L", "ck_clear")
          /\ UNCHANGED ret
  /\ UNCHANGED <<now, key_states, combinations, combination_start_time,
                 last_activity, lkey, lct, mct, stuck, tmp, timers, phase,
                 config, added, err, held>>
  /\ last' = IF MatchIn(combinations, cur') = "None" THEN "None" ELSE last
  /\ UNCHANGED pre
  /\ UNCHANGED <<due, evicted, prev>>
  /\ UNCHANGED appvars

\* a match that leaves the matched keys held, a variant C2_ResetAfterMatch
\* tells from the code
CheckClear_KeepKeys ==
  /\ pc["L"] = "ck_clear"
  /\ Goto("L", "ck_start")
  /\ UNCHANGED <<now, key_states, combinations, combination_start_time,
                 last_activity, stats, lkey, lct, mct, stuck, tmp, cur, ret,
                 timers, phase, config, added, err, held>>
  /\ UNCHANGED <<pre, last>>
  /\ UNCHANGED <<due, evicted, prev>>
  /\ UNCHANGED appvars

\*         self.key_states.clear()
CheckClear ==
  /\ pc["L"] = "ck_clear"
  /\ key_states' = <<>>
  /\ Goto("L", "ck_start")
  /\ UNCHANGED <<now, combinations, combination_start_time, last_activity,
                 stats, lkey, lct, mct, stuck, tmp, cur, ret, timers, phase,
                 config, added, err, held>>
  /\ UNCHANGED <<pre, last>>
  /\ UNCHANGED <<due, evicted, prev>>
  /\ UNCHANGED appvars

\*         self.combination_start_time = None; return name
CheckStart ==
  /\ pc["L"] = "ck_start"
  /\ combination_start_time' = NoneTime
  /\ ret' = MatchIn(combinations, cur)
  /\ Goto("L", "p_ret")
  /\ UNCHANGED <<now, key_states, combinations, last_activity, stats, lkey,
                 lct, mct, stuck, tmp, cur, timers, phase, config, added, err,
                 held>>
  /\ last' = MatchIn(combinations, cur)
  /\ UNCHANGED pre
  /\ UNCHANGED <<due, evicted>>
  /\ prev' = MatchIn(combinations, cur)
  /\ UNCHANGED appvars

\* handle_completion that skips the cooldown test of line 835, a variant
\* C29_Cooldown tells from the code
Dispatch_NoCooldown ==
  /\ pc["L"] = "p_ret"
  /\ Goto("L", IF ret = "reset" THEN "fr_chk" ELSE "idle")
  /\ lkey' = "None"
  /\ lct' = 0
  /\ cur' = {}
  /\ held' = {}
  /\ ret' = "None"
  /\ IF ret \notin {"None", "reset"}
     THEN /\ last_completion_time' = now
          /\ app' = IF ret = "quick"
                    THEN [app EXCEPT !.quick_requests = @ + 1]
                    ELSE IF ret = "popup"
                    THEN [app EXCEPT !.popup_requests = @ + 1]
                    ELSE app
          /\ workers' = Started(IF ret = "popup" THEN "ctx" ELSE "run")
     ELSE UNCHANGED <<last_completion_time, app, workers>>
  /\ UNCHANGED popup_active
  /\ UNCHANGED <<now, key_states, combinations, combination_start_time,
                 last_activity, stats, mct, stuck, tmp, timers, phase, config,
                 added, err>>
  /\ pre' = NoPre
  /\ UNCHANGED last
  /\ UNCHANGED <<due, evicted, prev>>

\* SelectionAutocompleteFastCombo.on_key_press after the tracker returned:
\* 'reset' runs handle_emergency_reset, which calls force_reset; any other
\* name goes to handle_completion: within completion_cooldown of the last
\* accepted completion it returns, otherwise it stores the time, counts the
\* request and starts the worker thread
Dispatch ==
  /\ pc["L"] = "p_ret"
  /\ Goto("L", IF ret = "reset" THEN "fr_chk" ELSE "idle")
  /\ lkey' = "None"
  /\ lct' = 0
  /\ cur' = {}
  /\ held' = {}
  /\ ret' = "None"
  /\ IF /\ ret \notin {"None", "reset"}
        /\ ~(now - last_completion_time < CompletionCooldown)
     THEN /\ last_completion_time' = now
          /\ app' = IF ret = "quick"
                    THEN [app EXCEPT !.quick_requests = @ + 1]
                    ELSE IF ret = "popup"
                    THEN [app EXCEPT !.popup_requests = @ + 1]
                    ELSE app
          /\ workers' = Started(IF ret = "popup" THEN "ctx" ELSE "run")
     ELSE UNCHANGED <<last_completion_time, app, workers>>
  /\ UNCHANGED popup_active
  /\ UNCHANGED <<now, key_states, combinations, combination_start_time,
                 last_activity, stats, mct, stuck, tmp, timers, phase, config,
                 added, err>>
  /\ pre' = NoPre
  /\ UNCHANGED last
  /\ UNCHANGED <<due, evicted, prev>>

\* handle_emergency_reset after force_reset has returned: the reset counter
\* and self.popup_active = False
EmergencyDone ==
  /\ pc["L"] = "er_done"
  /\ app' = [app EXCEPT !.key_resets = @ + 1]
  /\ popup_active' = FALSE
  /\ Goto("L", "idle")
  /\ UNCHANGED tracker
  /\ UNCHANGED <<last_completion_time, workers>>

\* on_key_release with line 308 before the test of line 306, a variant
\* C25_ReleaseOfAbsentKey tells from the code
ReleaseBegin_Touch(k) ==
  /\ phase = "listening"
  /\ pc["L"] = "idle"
  /\ ~popup_active
  /\ last_activity' = now
  /\ lkey' = IF DictHas(key_states, k) THEN k ELSE "None"
  /\ Goto("L", IF DictHas(key_states, k) THEN "r_del" ELSE "idle")
  /\ UNCHANGED <<now, key_states, combinations, combination_start_time,
                 stats, lct, mct, stuck, tmp, cur, ret, timers,
                 phase, config, added, err, held>>
  /\ UNCHANGED <<pre, last>>
  /\ due' = FALSE
  /\ UNCHANGED evicted
  /\ prev' = "None"
  /\ UNCHANGED appvars

\* --------------------------------------------------------- on_key_release
\* The listener delivers a release while popup_active is false (while it
\* is true the release is dropped): if key in self.key_states:
ReleaseBegin(k) ==
  /\ phase = "listening"
  /\ pc["L"] = "idle"
  /\ ~popup_active
  /\ lkey' = IF DictHas(key_states, k) THEN k ELSE "None"
  /\ Goto("L", IF DictHas(key_states, k) THEN "r_del" ELSE "idle")
  /\ UNCHANGED <<now, key_states, combinations, combination_start_time,
                 last_activity, stats, lct, mct, stuck, tmp, cur, ret, timers,
                 phase, config, added, err, held>>
  /\ UNCHANGED <<pre, last>>
  /\ due' = FALSE
  /\ UNCHANGED evicted
  /\ prev' = "None"
  /\ UNCHANGED appvars

\* on_key_release without the delete of line 307, a variant
\* C14_ReleasedKeysDoNotCount tells from the code
ReleaseDel_Keep ==
  /\ pc["L"] = "r_del"
  /\ Goto("L", "r_la")
  /\ lkey' = "None"
  /\ UNCHANGED <<now, key_states, combinations, combination_start_time,
                 last_activity, stats, lct, mct, stuck, tmp, cur, ret, timers,
                 phase, config, added, err, held>>
  /\ UNCHANGED <<pre, last>>
  /\ UNCHANGED <<due, evicted, prev>>
  /\ UNCHANGED appvars

\*     del self.key_states[key]
ReleaseDel ==
  /\ pc["L"] = "r_del"
  /\ IF DictHas(key_states, lkey)
     THEN /\ key_states' = DictDel(key_states, lkey)
          /\ Goto("L", "r_la")
          /\ UNCHANGED <<err, phase>>
     ELSE /\ Raise("L", "KeyError")
          /\ UNCHANGED key_states
  /\ lkey' = "None"
  /\ UNCHANGED <<now, combinations, combination_start_time, last_activity,
                 stats, lct, mct, stuck, tmp, cur, ret, timers, config,
                 added, held>>
  /\ UNCHANGED <<pre, last>>
  /\ UNCHANGED <<due, evicted, prev>>
  /\ UNCHANGED appvars

\*     self.last_activity = time.time()
ReleaseLa ==
  /\ pc["L"] = "r_la"
  /\ last_activity' = now
  /\ Goto("L", "r_chk")
  /\ UNCHANGED <<now, key_states, combinations, combination_start_time, stats,
                 lkey, lct, mct, stuck, tmp, cur, ret, timers, phase, config,
                 added, err, held>>
  /\ UNCHANGED <<pre, last>>
  /\ UNCHANGED <<due, evicted, prev>>
  /\ UNCHANGED appvars

\* on_key_release without the test of line 311, a variant
\* C18_ReleaseOnlyRemoves tells from the code
ReleaseChk_Always ==
  /\ pc["L"] = "r_chk"
  /\ Goto("L", "r_clr")
  /\ UNCHANGED <<now, key_states, combinations, combination_start_time,
                 last_activity, stats, lkey, lct, mct, stuck, tmp, cur, ret,
                 timers, phase, config, added, err, held>>
  /\ UNCHANGED <<pre, last>>
  /\ UNCHANGED <<due, evicted, prev>>
  /\ UNCHANGED appvars

\*     if not self.key_states:
ReleaseChk ==
  /\ pc["L"] = "r_chk"
  /\ Goto("L", IF key_states = <<>> THEN "r_clr" ELSE "idle")
  /\ UNCHANGED <<now, key_states, combinations, combination_start_time,
                 last_activity, stats, lkey, lct, mct, stuck, tmp, cur, ret,
                 timers, phase, config, added, err, held>>
  /\ UNCHANGED <<pre, last>>
  /\ UNCHANGED <<due, evicted, prev>>
  /\ UNCHANGED appvars

\*         self.combination_start_time = None
ReleaseClr ==
  /\ pc["L"] = "r_clr"
  /\ combination_start_time' = NoneTime
  /\ Goto("L", "idle")
  /\ UNCHANGED <<now, key_states, combinations, last_activity, stats, lkey,
                 lct, mct, stuck, tmp, cur, ret, timers, phase, config, added,
                 err, held>>
  /\ UNCHANGED <<pre, last>>
  /\ UNCHANGED <<due, evicted, prev>>
  /\ UNCHANGED appvars

\* ------------------------------------------- start_monitoring / monitor()
\* A pending timer expires and its thread runs monitor():
\* current_time = time.time(), then cleanup_stuck_keys()
TimerFire ==
  /\ pc["M"] = "idle"
  /\ timers # <<>>
  /\ Head(timers) <= now
  /\ timers' = Tail(timers)
  /\ mct' = now
  /\ Goto("M", "cl_scan")
  /\ UNCHANGED <<now, key_states, combinations, combination_start_time,
                 last_activity, stats, lkey, lct, stuck, tmp, cur, ret, phase,
                 config, added, err, held>>
  /\ UNCHANGED <<pre, last>>
  /\ due' = (pc["L"] = "idle" /\ pc["P"] = "idle" /\ key_states # <<>>
              /\ now - last_activity > InactivityLimit)
  /\ UNCHANGED <<evicted, prev>>
  /\ UNCHANGED appvars

\* if (current_time - self.last_activity > 5.0 ...
MonitorLa ==
  /\ pc["M"] = "m_la"
  /\ Goto("M", IF mct - last_activity > InactivityLimit THEN "m_ks" ELSE "m_sched")
  /\ mct' = 0
  /\ UNCHANGED <<now, key_states, combinations, combination_start_time,
                 last_activity, stats, lkey, lct, stuck, tmp, cur, ret,
                 timers, phase, config, added, err, held>>
  /\ UNCHANGED <<pre, last>>
  /\ UNCHANGED <<due, evicted, prev>>
  /\ UNCHANGED appvars

\* a tick that skips force_reset, a variant C12_InactivityReset tells from
\* the code
MonitorKs_NoReset ==
  /\ pc["M"] = "m_ks"
  /\ Goto("M", "m_sched")
  /\ UNCHANGED <<now, key_states, combinations, combination_start_time,
                 last_activity, stats, lkey, lct, mct, stuck, tmp, cur, ret,
                 timers, phase, config, added, err, held>>
  /\ UNCHANGED <<pre, last>>
  /\ UNCHANGED <<due, evicted, prev>>
  /\ UNCHANGED appvars

\* ... and self.key_states): self.force_reset()
MonitorKs ==
  /\ pc["M"] = "m_ks"
  /\ Goto("M", IF key_states # <<>> THEN "fr_chk" ELSE "m_sched")
  /\ UNCHANGED <<now, key_states, combinations, combination_start_time,
                 last_activity, stats, lkey, lct, mct, stuck, tmp, cur, ret,
                 timers, phase, config, added, err, held>>
  /\ UNCHANGED <<pre, last>>
  /\ UNCHANGED <<due, evicted, prev>>
  /\ UNCHANGED appvars

\* a tick that arms two timers, a variant C24_OneTimer tells from the code
MonitorSched_Twice ==
  /\ pc["M"] = "m_sched"
  /\ timers' = timers \o <<now + CleanupInterval, now + CleanupInterval>>
  /\ Goto("M", "idle")
  /\ UNCHANGED <<now, key_states, combinations, combination_start_time,
                 last_activity, stats, lkey, lct, mct, stuck, tmp, cur, ret,
                 phase, config, added, err, held>>
  /\ UNCHANGED <<pre, last>>
  /\ due' = FALSE
  /\ UNCHANGED <<evicted, prev>>
  /\ UNCHANGED appvars

\* threading.Timer(self.cleanup_interval, monitor).start()
MonitorSched ==
  /\ pc["M"] = "m_sched"
  /\ timers' = Append(timers, now + CleanupInterval)
  /\ Goto("M", "idle")
  /\ UNCHANGED <<now, key_states, combinations, combination_start_time,
                 last_activity, stats, lkey, lct, mct, stuck, tmp, cur, ret,
                 phase, config, added, err, held>>
  /\ UNCHANGED <<pre, last>>
  /\ due' = FALSE
  /\ UNCHANGED <<evicted, prev>>
  /\ UNCHANGED appvars

\* ------------------------------------------------------- the application
Call(name, keys, res) ==
  [name |-> name, keys |-> keys, ok |-> res.ok, table |-> res.c]

\* setup_key_combinations, called from __init__ before self.stats exists:
\* the two configured combinations are added; a rejected one makes the
\* method read self.stats, an AttributeError that leaves the constructor;
\* otherwise 'reset' is added and construction completes
SetupKeyCombinations ==
  /\ phase = "setup"
  /\ LET quick_combo == parse_key_combination(config.quick)
         popup_combo == parse_key_combination(config.popup)
         q == add_combination(combinations, "quick", quick_combo)
         p == add_combination(q.c, "popup", popup_combo)
         r == add_combination(p.c, "reset", ResetCombo)
     IN  IF q.ok /\ p.ok
         THEN /\ combinations' = r.c
              /\ added' = <<Call("quick", quick_combo, q),
                            Call("popup", popup_combo, p),
                            Call("reset", ResetCombo, r)>>
              /\ phase' = "constructed"
              /\ UNCHANGED err
         ELSE /\ combinations' = p.c
              /\ added' = <<Call("quick", quick_combo, q),
                            Call("popup", popup_combo, p)>>
              /\ phase' = "init_failed"
              /\ err' = [err EXCEPT !["L"] = "AttributeError"]
  /\ UNCHANGED <<now, key_states, combination_start_time, last_activity, stats,
                 pc, lkey, lct, mct, stuck, tmp, cur, ret, timers, config,
                 held>>
  /\ UNCHANGED <<pre, last>>
  /\ UNCHANGED <<due, evicted, prev>>
  /\ UNCHANGED appvars

\* start(): test_connection() fails and start returns False, or the
\* listener starts delivering events
Start ==
  /\ phase = "constructed"
  /\ \E connected \in BOOLEAN :
       phase' = IF connected THEN "listening" ELSE "exited"
  /\ UNCHANGED <<now, key_states, combinations, combination_start_time,
                 last_activity, stats, pc, lkey, lct, mct, stuck, tmp, cur,
                 ret, timers, config, added, err, held>>
  /\ UNCHANGED <<pre, last>>
  /\ UNCHANGED <<due, evicted, prev>>
  /\ UNCHANGED appvars

\* KeyboardInterrupt in start(): the listener is left, statistics printed
Stop ==
  /\ phase = "listening"
  /\ pc["L"] = "idle"
  /\ phase' = "stopped"
  /\ UNCHANGED <<now, key_states, combinations, combination_start_time,
                 last_activity, stats, pc, lkey, lct, mct, stuck, tmp, cur,
                 ret, timers, config, added, err, held>>
  /\ UNCHANGED <<pre, last>>
  /\ UNCHANGED <<due, evicted, prev>>
  /\ UNCHANGED appvars

\* ------------------------------------------------------ the worker threads
\* _popup_worker: get_selected_text_for_context() finds no context and the
\* worker returns, or it finds one and, after move_cursor_to_end(),
\* show_popup_options sets self.popup_active = True
PopupContext ==
  /\ workers["ctx"] > 0
  /\ \E context \in BOOLEAN :
       IF context
       THEN /\ popup_active' = TRUE
            /\ workers' = Moved("ctx", "gen")
       ELSE /\ workers' = Ended("ctx")
            /\ UNCHANGED popup_active
  /\ UNCHANGED <<pc, last_completion_time, app>>
  /\ UNCHANGED tracker

\* show_popup_options: generate_multiple_options returns no option, or an
\* exception is caught (both set popup_active = False and return), or the
\* popup window is built and popup.show() enters its main loop
PopupOptions ==
  /\ workers["gen"] > 0
  /\ \E shown \in BOOLEAN :
       IF shown
       THEN /\ workers' = Moved("gen", "popup")
            /\ UNCHANGED popup_active
       ELSE /\ popup_active' = FALSE
            /\ workers' = Ended("gen")
  /\ UNCHANGED <<pc, last_completion_time, app>>
  /\ UNCHANGED tracker

\* the user selects an option or cancels: on_selection sets popup_active =
\* False and, for a selection, injects the text
PopupSelect ==
  /\ workers["popup"] > 0
  /\ popup_active' = FALSE
  /\ workers' = Moved("popup", "reset")
  /\ UNCHANGED <<pc, last_completion_time, app>>
  /\ UNCHANGED tracker

\* on_selection: self.key_tracker.force_reset(), called in the popup thread
PopupReset ==
  /\ workers["reset"] > 0
  /\ pc["P"] = "idle"
  /\ Goto("P", "fr_chk")
  /\ workers' = Moved("reset", "resetting")
  /\ UNCHANGED <<popup_active, last_completion_time, app>>
  /\ UNCHANGED <<now, key_states, combinations, combination_start_time,
                 last_activity, stats, lkey, lct, mct, stuck, tmp, cur, ret,
                 timers, phase, config, added, err, held>>
  /\ UNCHANGED <<pre, last>>
  /\ due' = FALSE
  /\ UNCHANGED <<evicted, prev>>

\* force_reset has returned: on_selection, popup.show() and the worker end
PopupDone ==
  /\ workers["resetting"] > 0
  /\ pc["P"] = "fr_ret"
  /\ Goto("P", "idle")
  /\ workers' = Ended("resetting")
  /\ UNCHANGED <<popup_active, last_completion_time, app>>
  /\ UNCHANGED tracker

\* ------------------------------------------------------------------ clock
Tick ==
  /\ ~Busy("L")
  /\ ~Busy("M")
  /\ ~Busy("P")
  /\ IF timers = <<>> THEN TRUE ELSE Head(timers) > now
  /\ now + Quantum <= MaxTime
  /\ now' = now + Quantum
  /\ UNCHANGED <<key_states, combinations, combination_start_time,
                 last_activity, stats, pc, lkey, lct, mct, stuck, tmp, cur,
                 ret, timers, phase, config, added, err, held>>
  /\ UNCHANGED <<pre, last>>
  /\ UNCHANGED <<due, evicted, prev>>
  /\ UNCHANGED appvars

\* ------------------------------------------------------------------- Next
Shared(th) ==
  \/ CleanupScan(th) \/ CleanupLoad(th) \/ CleanupStore(th)
  \/ CleanupDel(th) \/ CleanupChk(th) \/ CleanupClr(th)
  \/ ResetChk(th) \/ ResetClear(th) \/ ResetStart(th) \/ ResetLa(th)

ListenerSteps ==
  \/ PressEmpty \/ PressStart \/ PressRd1 \/ PressRd2
  \/ PressToClear \/ PressToStart \/ PressRecord \/ PressLa
  \/ CheckSnap \/ CheckClear \/ CheckStart \/ Dispatch \/ EmergencyDone
  \/ \E k \in PressKeys : ReleaseBegin(k)
  \/ ReleaseDel \/ ReleaseLa \/ ReleaseChk \/ ReleaseClr
  \/ Shared("L")

\* the listener thread: a press is delivered, or the running callback steps
Listener ==
  \/ \E k \in PressKeys :
       stats.total_key_presses < MaxPresses /\ PressBegin(k)
  \/ ListenerSteps

Monitor ==
  \/ TimerFire \/ MonitorLa \/ MonitorKs \/ MonitorSched
  \/ Shared("M")

\* the worker threads outside the tracker; the popup thread inside
\* force_reset
WorkerSteps == PopupContext \/ PopupOptions \/ PopupSelect

PopupThread ==
  \/ PopupReset \/ PopupDone
  \/ ResetChk("P") \/ ResetClear("P") \/ ResetStart("P") \/ ResetLa("P")

Workers == WorkerSteps \/ PopupThread

App == SetupKeyCombinations \/ Start \/ Stop

Next == Listener \/ Monitor \/ Workers \/ App \/ Tick

Spec == Init /\ [][Next]_vars

\* The same program with every operation run to its end before the other
\* thread takes a step (what a lock around each operation would give)
SerialNext ==
  \/ ~Busy("M") /\ ~Busy("P") /\ Listener
  \/ ~Busy("L") /\ ~Busy("P") /\ Monitor
  \/ ~Busy("L") /\ ~Busy("M") /\ Workers
  \/ App
  \/ Tick

SerialSpec == Init /\ [][SerialNext]_vars

\* The application with 'popup' bound to the single key r, so that a popup
\* worker can be followed by the three presses of the emergency reset: each
\* tracker operation runs to its end as in SerialSpec, and the worker
\* threads step between the steps of the listener
AppConfig ==
  [quick |-> <<"ctrl", "r">>, popup |-> <<"r">>, hold |-> MaxKeyHoldTime]

AppInit ==
  /\ now = InitTime
  /\ key_states = <<>>
  /\ combinations = <<>>
  /\ combination_start_time = NoneTime
  /\ last_activity = InitTime
  /\ stats = ZeroStats
  /\ pc = [th \in Threads |-> "idle"]
  /\ lkey = "None"
  /\ lct = 0
  /\ mct = 0
  /\ stuck = [th \in Threads |-> <<>>]
  /\ tmp = [th \in Threads |-> 0]
  /\ cur = {}
  /\ ret = "None"
  /\ timers = <<InitTime + CleanupInterval>>
  /\ phase = "setup"
  /\ config = AppConfig
  /\ added = <<>>
  /\ err = [th \in Threads |-> ""]
  /\ held = {}
  /\ pre = NoPre
  /\ last = "None"
  /\ due = FALSE
  /\ evicted = 0
  /\ prev = "None"
  /\ popup_active = FALSE
  /\ last_completion_time = LongAgo
  /\ app = ZeroApp
  /\ workers = NoWorkers

AppListener ==
  \/ \E k \in PressKeys :
       /\ stats.total_key_presses < MaxAppPresses
       /\ app.quick_requests + app.popup_requests < MaxRequests
       /\ PressBegin(k)
  \/ ListenerSteps

\* the clock of these runs: 0.8 s first, then steps of AppQuantum
AppTick ==
  /\ ~Busy("L")
  /\ ~Busy("M")
  /\ ~Busy("P")
  /\ IF timers = <<>> THEN TRUE ELSE Head(timers) > now
  /\ now + (IF now = InitTime THEN Quantum ELSE AppQuantum) <= MaxTime
  /\ now' = now + (IF now = InitTime THEN Quantum ELSE AppQuantum)
  /\ UNCHANGED <<key_states, combinations, combination_start_time,
                 last_activity, stats, pc, lkey, lct, mct, stuck, tmp, cur,
                 ret, timers, phase, config, added, err, held>>
  /\ UNCHANGED <<pre, last>>
  /\ UNCHANGED <<due, evicted, prev>>
  /\ UNCHANGED appvars

AppNext ==
  \/ ~Busy("M") /\ ~Busy("P") /\ AppListener
  \/ ~Busy("L") /\ ~Busy("P") /\ Monitor
  \/ ~Busy("L") /\ ~Busy("M") /\ PopupThread
  \/ WorkerSteps
  \/ App
  \/ AppTick

AppSpec == AppInit /\ [][AppNext]_vars

\* ================================================================ claims
Returned == pc["L"] = "p_ret"       \* on_key_press has just returned ret
Swept(th) == pc[th] = AfterCleanup(th)  \* cleanup_stuck_keys has just returned

\* C1 as stated: an on_key_press after which the held-key set equals the
\* key set R of a registered combination returns that combination's name,
\* and one after which the held-key set is a strict subset or superset of R
\* does not return it.
C1_ExactMatchAsClaimed ==
  Returned =>
    \A i \in 1..Len(combinations) :
      LET R == combinations[i].v IN
      /\ held = R => ret = combinations[i].k
      /\ (held # R /\ (held \subseteq R \/ R \subseteq held))
           => ret # combinations[i].k

\* C1 amended: on_key_press returns the name of the first registered
\* combination whose key set equals the key set S that check_combinations
\* reads (S holds no key outside the held-key set), and None when no
\* registered key set equals S; a combination whose key set differs from S,
\* or that is registered after another one with the same key set, is not
\* returned.
C1_ExactMatch ==
  Returned =>
    /\ cur \subseteq held
    /\ \A i \in 1..Len(combinations) :
         LET first == /\ combinations[i].v = cur
                      /\ \A j \in 1..(i-1) : combinations[j].v # cur
         IN  (ret = combinations[i].k) <=> first
    /\ (\A i \in 1..Len(combinations) : combinations[i].v # cur) <=> ret = "None"

\* a press returned 'quick' while 'popup' is registered with the same keys
C1_Witness ==
  /\ Returned
  /\ ret = "quick"
  /\ \E i \in 1..Len(combinations) :
       combinations[i].k = "popup" /\ combinations[i].v = cur

\* C2: right after an on_key_press that returns a combination name,
\* key_states is empty and combination_start_time is None; and the next
\* on_key_press finds key_states empty at line 273, takes no other branch,
\* and sets combination_start_time to its own current_time.
C2_ResetAfterMatch ==
  /\ [](Returned /\ ret # "None"
          => key_states = <<>> /\ combination_start_time = NoneTime)
  /\ [](last # "None" /\ pc["L"] = "p_empty" => key_states = <<>>)
  /\ [](last # "None"
          => pc["L"] \notin {"p_rd1", "p_rd2", "p_to_clear", "p_to_start"})
  /\ [][pc["L"] = "p_start" /\ pc'["L"] # "p_start"
          => combination_start_time' = lct]_vars

\* the press that follows a match has just started its window
C2_Witness ==
  /\ last # "None"
  /\ pc["L"] = "p_record"
  /\ combination_start_time = lct
  /\ key_states = <<>>

Recorded == pc["L"] = "p_la"    \* on_key_press has just executed line 289

\* C3 as stated: if a key pressed at t0 is still unreleased when the next
\* press comes at a time later than t0 + combination_timeout, that press
\* increments combinations_timeout exactly once, leaves only its own key
\* held and restarts the window at its own time.
C3_TimeoutAsClaimed ==
  (Recorded /\ \E i \in 1..Len(pre.ks) : lct - pre.ks[i].v > CombinationTimeout)
    => /\ stats.combinations_timeout = pre.stats.combinations_timeout + 1
       /\ DictKeys(key_states) = {lkey}
       /\ combination_start_time = lct

\* C3 amended: a press during which the watchdog writes nothing increments
\* combinations_timeout, by exactly one, if and only if some key held when
\* it begins is not stale (held for at most max_key_hold_time) and
\* combination_start_time is set and more than combination_timeout before
\* the press; after line 289 of such a press, or of one that finds every
\* held key stale (and counts no timeout), its key is the only one held,
\* with the time of the press, and the window starts at that time.  Under
\* every interleaving a press counts at most one timeout, at line 284 only;
\* it then clears key_states, sets combination_start_time to its own time
\* and records its key with that time, so that after line 289 no other key
\* is held and the window start is the time of the press or None.
C3_Timeout ==
  /\ [](Recorded =>
          LET live == {i \in 1..Len(pre.ks) :
                         lct - pre.ks[i].v <= max_key_hold_time}
              timedOut == /\ live # {}
                          /\ pre.start # NoneTime
                          /\ lct - pre.start > CombinationTimeout
              counted == stats.combinations_timeout
                           - pre.stats.combinations_timeout
          IN  /\ counted \in {0, 1}
              /\ pre.ok =>
                   /\ counted = 1 <=> timedOut
                   /\ (timedOut \/ (live = {} /\ pre.ks # <<>>))
                        => /\ key_states = <<[k |-> lkey, v |-> lct]>>
                           /\ combination_start_time = lct
              /\ counted = 1 =>
                   /\ DictKeys(key_states) \subseteq {lkey}
                   /\ DictHas(key_states, lkey) => DictGet(key_states, lkey) = lct
                   /\ combination_start_time \in {lct, NoneTime})
  /\ [][stats'.combinations_timeout # stats.combinations_timeout
          => pc["L"] = "p_rd2" /\ pc'["L"] = "p_to_clear"]_vars
  /\ [][pc["L"] = "p_to_clear" /\ pc'["L"] # "p_to_clear"
          => key_states' = <<>> /\ pc'["L"] = "p_to_start"]_vars
  /\ [][pc["L"] = "p_to_start" /\ pc'["L"] # "p_to_start"
          => combination_start_time' = lct /\ pc'["L"] = "p_record"]_vars
  /\ [][pc["L"] = "p_record" /\ pc'["L"] # "p_record"
          => /\ DictHas(key_states', lkey)
             /\ DictGet(key_states', lkey) = lct
             /\ pc'["L"] = "p_la"]_vars

\* a press has just timed out the window of an earlier, still held key
C3_Witness ==
  /\ Recorded
  /\ pre.ok
  /\ stats.combinations_timeout = pre.stats.combinations_timeout + 1
  /\ \E i \in 1..Len(pre.ks) :
       pre.ks[i].k # lkey /\ lct - pre.ks[i].v > CombinationTimeout
  /\ key_states = <<[k |-> lkey, v |-> lct]>>

\* C4 as stated: a key whose release is never delivered is absent from
\* key_states at every time later than its press time + max_key_hold_time.
C4_EvictionAsClaimed ==
  \A i \in 1..Len(key_states) : now - key_states[i].v <= max_key_hold_time

\* C4 amended: a key whose release is never delivered is absent from
\* key_states at the end of every staleness sweep (cleanup_stuck_keys, run
\* by each watchdog tick and at the start of each on_key_press) that runs
\* later than its press time + max_key_hold_time and returns.
C4_Eviction ==
  \A th \in Threads :
    Swept(th) =>
      \A i \in 1..Len(key_states) : now - key_states[i].v <= max_key_hold_time

\* the watchdog's sweep has just evicted the only held key
C4_Witness ==
  /\ Swept("M")
  /\ stats.stuck_keys_cleaned = 1
  /\ key_states = <<>>
  /\ stats.total_key_presses = 1


\* no tracker operation is running
Quiescent == ~Busy("L") /\ ~Busy("M") /\ ~Busy("P")

\* C5: every operation of the tracker takes effect atomically, so that the
\* tracker is always in a state some serial order of the operations
\* produces: between operations a held key always has an open window
\* (combination_start_time is set), and an on_key_press that returns without
\* a match leaves its key in key_states.
C5_Atomic ==
  /\ (Quiescent /\ key_states # <<>>) => combination_start_time # NoneTime
  /\ (Returned /\ ret = "None") => DictHas(key_states, lkey)

\* C6: no operation of the tracker raises: neither the listener's callback
\* nor the watchdog's tick is ever left by an exception.
C6_NoFatalErrors ==
  \A th \in Threads :
    /\ err[th] \notin {"KeyError", "TypeError"}
    /\ pc[th] \notin {"crashed", "dead"}

\* C7: the watchdog keeps ticking: whenever no tick is running, a timer for
\* the next tick is pending.
C7_Recurrence ==
  ~Busy("M") => /\ pc["M"] = "idle"
                /\ timers # <<>>

\* C8: once the program has been stopped, no watchdog tick starts and no
\* timer for a further tick is armed.
C8_Shutdown ==
  [][phase = "stopped"
       => /\ ~(pc["M"] = "idle" /\ pc'["M"] # "idle")
          /\ Len(timers') <= Len(timers)]_vars

\* the table before the i-th add_combination call of setup_key_combinations
TableBefore(i) == IF i = 1 THEN <<>> ELSE added[i-1].table

\* C9: add_combination returns False and leaves the table as it was exactly
\* when the key set is empty or a single bare modifier; a rejected name is
\* not in the table, is returned by check_combinations for no key set, and
\* has not been returned by an on_key_press.
C9_RegistrationValidation ==
  \A i \in 1..Len(added) :
    /\ ~added[i].ok <=>
         \/ SeqToSet(added[i].keys) = {}
         \/ \E m \in {"ctrl", "shift", "alt"} : SeqToSet(added[i].keys) = {m}
    /\ ~added[i].ok =>
         /\ added[i].table = TableBefore(i)
         /\ ~DictHas(combinations, added[i].name)
         /\ \A S \in SUBSET (NamedKeys \cup Letters) :
              MatchIn(combinations, S) # added[i].name
         /\ ret # added[i].name
         /\ last # added[i].name
    /\ added[i].ok =>
         added[i].table =
           DictPut(TableBefore(i), added[i].name, SeqToSet(added[i].keys))

\* 'quick' has been rejected as a single bare modifier after which 'popup'
\* was accepted into the unchanged table
C9_Witness ==
  /\ Len(added) >= 2
  /\ added[1].name = "quick" /\ added[1].keys = <<"ctrl">> /\ ~added[1].ok
  /\ added[1].table = <<>>
  /\ added[2].ok
  /\ DictKeys(combinations) = {"popup"}

\* C10: when add_combination rejects the quick or the popup combination,
\* construction still completes and 'reset' is registered.
C10_RejectionNotFatal ==
  (\E i \in 1..Len(added) : ~added[i].ok)
    => /\ phase # "init_failed"
       /\ err["L"] # "AttributeError"
       /\ DictHas(combinations, "reset")


\* C11 as stated: every combination in the table has a required-key set of
\* at least two keys.
C11_KeySetSizeAsClaimed ==
  \A i \in 1..Len(combinations) : Cardinality(combinations[i].v) >= 2

\* C11 amended: every combination in the table has a non-empty required-key
\* set that is not a single bare modifier; a set of one key that is not a
\* modifier is stored.
C11_KeySetSize ==
  \A i \in 1..Len(combinations) :
    /\ Cardinality(combinations[i].v) >= 1
    /\ \A m \in {"ctrl", "shift", "alt"} : combinations[i].v # {m}

\* 'quick' is registered with the single key r
C11_Witness ==
  \E i \in 1..Len(combinations) :
    combinations[i].k = "quick" /\ combinations[i].v = {"r"}


TickDone == pc["M"] = "m_sched"   \* monitor() is about to arm the next timer

\* C12: a watchdog tick that begins with a key held and last_activity more
\* than 5.0 s old, and runs without another thread starting an operation,
\* leaves key_states empty and combination_start_time None, also when its
\* sweep evicted nothing.
C12_InactivityReset ==
  (TickDone /\ due)
    => /\ key_states = <<>>
       /\ combination_start_time = NoneTime

\* such a tick has emptied key_states although no key was ever evicted as
\* stuck
C12_Witness ==
  /\ TickDone
  /\ due
  /\ evicted = 0
  /\ stats.stuck_keys_cleaned = 0
  /\ key_states = <<>>
  /\ combination_start_time = NoneTime


\* on_key_press is between the return of its sweep and its call of
\* check_combinations
AfterSweep ==
  pc["L"] \in {"p_empty", "p_start", "p_rd1", "p_rd2", "p_to_clear",
               "p_to_start", "p_record", "p_la", "ck_snap"}

\* C13: in every on_key_press the sweep has evicted every key held longer
\* than max_key_hold_time before the timeout check and before the new key
\* is recorded, and the key set evaluated for matching contains no key that
\* was stale when the press began (other than the pressed key itself,
\* recorded anew).
C13_SweepFirst ==
  /\ AfterSweep =>
       \A i \in 1..Len(key_states) : lct - key_states[i].v <= max_key_hold_time
  /\ Returned =>
       \A i \in 1..Len(pre.ks) :
         (lct - pre.ks[i].v > max_key_hold_time /\ pre.ks[i].k # lkey)
           => pre.ks[i].k \notin cur

\* ctrl was stale when alt was pressed, and the set evaluated is {alt}
C13_Witness ==
  /\ Returned
  /\ lkey = "alt"
  /\ cur = {"alt"}
  /\ \E i \in 1..Len(pre.ks) :
       pre.ks[i].k = "ctrl" /\ lct - pre.ks[i].v > max_key_hold_time


\* C14: a release that is handled leaves its key out of key_states, only
\* line 289 of a press of key k puts k into key_states, and a press
\* returns a combination only if every key of it is in the set it
\* evaluated; so a key whose release was handled after its last press is
\* not in the set used for matching.
C14_ReleasedKeysDoNotCount ==
  /\ [][pc["L"] = "r_del" /\ pc'["L"] = "r_la"
          => ~DictHas(key_states', lkey)]_vars
  /\ [][\A k \in PressKeys :
          (DictHas(key_states', k) /\ ~DictHas(key_states, k))
            => pc["L"] = "p_record" /\ lkey = k]_vars
  /\ [](Returned =>
          /\ cur \subseteq held
          /\ \A i \in 1..Len(combinations) :
               ret = combinations[i].k => combinations[i].v \subseteq cur)

\* the first key was released before the second press, which evaluates
\* {r} and matches nothing although {ctrl, r} is registered
C14_Witness ==
  /\ Returned
  /\ ret = "None"
  /\ cur = {"r"}
  /\ pre.ks = <<>>
  /\ stats.total_key_presses = 2
  /\ stats.combinations_detected = 0
  /\ stats.combinations_timeout = 0
  /\ evicted = 0
  /\ now = InitTime
  /\ \E i \in 1..Len(combinations) : combinations[i].v = {"ctrl", "r"}


Matched == pc["L"] = "ck_start"   \* check_combinations has found a match

\* C15: a combination that an on_key_press returned is not returned by a
\* later on_key_press unless an on_key_release has been handled in between.
C15_Retrigger ==
  Matched => MatchIn(combinations, cur) # prev


\* C16: between operations stuck_keys_cleaned equals the number of keys the
\* sweeps have deleted from key_states: no eviction is counted twice or
\* missed.
C16_CounterAccuracy ==
  Quiescent => stats.stuck_keys_cleaned = evicted


InReset(th) == pc[th] \in {"fr_chk", "fr_clear", "fr_start", "fr_la"}

\* C17: force_reset never raises and changes neither the combination table
\* nor a statistics counter; when it returns, key_states is empty and
\* combination_start_time is None (for the watchdog's call: provided the
\* listener has run nothing during the tick); and called with key_states
\* empty and combination_start_time None it leaves both as they are.
C17_ForceReset ==
  /\ [][\A th \in Threads :
          (InReset(th) /\ pc'[th] # pc[th])
            => /\ InReset(th)' \/ pc'[th] = AfterReset(th)
               /\ err' = err
               /\ combinations' = combinations
               /\ stats' = stats
               /\ (key_states = <<>> /\ combination_start_time = NoneTime)
                    => (key_states' = <<>> /\ combination_start_time' = NoneTime)
        ]_vars
  /\ [][\A th \in Threads :
          (pc[th] = "fr_la" /\ pc'[th] # "fr_la" /\ (th = "L" \/ due))
            => /\ key_states' = <<>>
               /\ combination_start_time' = NoneTime
               /\ last_activity' = now]_vars

\* the watchdog's force_reset has just returned after clearing a key that
\* was not stale
C17_Witness ==
  /\ pc["M"] = AfterReset("M")
  /\ due
  /\ key_states = <<>>
  /\ combination_start_time = NoneTime
  /\ last_activity = now
  /\ evicted = 0
  /\ stats.total_key_presses > 0


InRelease == pc["L"] \in {"r_del", "r_la", "r_chk", "r_clr"}

\* C18: on_key_release returns no combination name, changes no statistics
\* counter and adds no key; it deletes the released key when that key is
\* held at line 307 (it raises KeyError when the watchdog has deleted the
\* key since line 306), does nothing for a key that is not held, and sets
\* combination_start_time to None exactly when it finds key_states empty
\* at line 311.
C18_ReleaseOnlyRemoves ==
  /\ [](InRelease => ret = "None")
  /\ [][(InRelease /\ pc'["L"] # pc["L"])
          => /\ stats' = stats
             /\ ret' = ret
             /\ combinations' = combinations
             /\ DictKeys(key_states') \subseteq DictKeys(key_states)
             /\ pc["L"] # "r_del" => key_states' = key_states
             /\ pc["L"] # "r_clr"
                  => combination_start_time' = combination_start_time]_vars
  /\ [][(pc["L"] = "r_del" /\ pc'["L"] # "r_del")
          => IF DictHas(key_states, lkey)
             THEN /\ key_states' = DictDel(key_states, lkey)
                  /\ pc'["L"] = "r_la"
             ELSE pc'["L"] = "crashed"]_vars
  /\ [][(pc["L"] = "r_chk" /\ pc'["L"] # "r_chk")
          => pc'["L"] = (IF key_states = <<>> THEN "r_clr" ELSE "idle")]_vars
  /\ [][(pc["L"] = "r_clr" /\ pc'["L"] # "r_clr")
          => combination_start_time' = NoneTime /\ pc'["L"] = "idle"]_vars
  /\ [][(pc' = pc /\ stuck' = stuck /\ now' = now /\ phase' = phase)
          => /\ stats' = stats
             /\ key_states' = key_states
             /\ combination_start_time' = combination_start_time
             /\ last_activity' = last_activity]_vars

\* a release has removed a key while another key stays held, and the
\* window stays open
C18_Witness ==
  /\ pc["L"] = "r_chk"
  /\ Len(key_states) = 1
  /\ combination_start_time # NoneTime
  /\ last_activity = now
  /\ stats.total_key_presses = 2


\* C19: no counter of the tracker ever decreases; total_key_presses grows
\* by one, at the start of an on_key_press and nowhere else; and an
\* on_key_press has increased combinations_detected, by one, exactly when
\* it returns a combination name.
C19_Statistics ==
  /\ [][\A f \in DOMAIN stats : stats'[f] >= stats[f]]_vars
  /\ [][stats'.total_key_presses # stats.total_key_presses
          => /\ pc["L"] = "idle" /\ pc'["L"] = "cl_scan"
             /\ stats'.total_key_presses = stats.total_key_presses + 1]_vars
  /\ [][(pc["L"] = "idle" /\ pc'["L"] = "cl_scan")
          => stats'.total_key_presses = stats.total_key_presses + 1]_vars
  /\ [](Returned =>
          stats.combinations_detected =
            pre.stats.combinations_detected + (IF ret # "None" THEN 1 ELSE 0))


\* C20: between operations combination_start_time is None if and only if
\* key_states is empty.
C20_WindowInvariant ==
  Quiescent => (combination_start_time = NoneTime <=> key_states = <<>>)


\* C21: the tracker heals itself: whenever the listener runs no operation
\* and a key is held or the window is open, a watchdog tick is running or a
\* timer for one is pending, so that with no further event key_states
\* becomes empty and combination_start_time None.
C21_SelfHealing ==
  (~Busy("L") /\ (key_states # <<>> \/ combination_start_time # NoneTime))
    => (Busy("M") \/ (pc["M"] = "idle" /\ timers # <<>>))


\* C22 as stated: an on_key_press for a key that is already in key_states
\* keeps exactly one entry for that key, with the time of the new press,
\* and increments neither the timeout nor the stuck-key counter.
C22_RePressAsClaimed ==
  (Recorded /\ pre.ok /\ DictHas(pre.ks, lkey))
    => /\ Cardinality({i \in 1..Len(key_states) : key_states[i].k = lkey}) = 1
       /\ DictGet(key_states, lkey) = lct
       /\ stats.combinations_timeout = pre.stats.combinations_timeout
       /\ stats.stuck_keys_cleaned = pre.stats.stuck_keys_cleaned

\* C22 amended: key_states never holds two entries for one key.  An
\* on_key_press for a key that is already in key_states, during which the
\* watchdog writes nothing, leaves exactly one entry for that key, with the
\* time of the new press; it is swept and checked like any other press: the
\* stuck-key counter grows by the number of held keys that are stale, and
\* the timeout counter by one exactly when a held key is not stale and the
\* window started more than combination_timeout before.  When no held key
\* is stale and the window is not older than combination_timeout, neither
\* counter changes and key_states is what it was, but for the new time of
\* the pressed key.
C22_RePress ==
  /\ \A i, j \in 1..Len(key_states) :
       key_states[i].k = key_states[j].k => i = j
  /\ (Recorded /\ pre.ok /\ DictHas(pre.ks, lkey))
       => LET live == {i \in 1..Len(pre.ks) :
                         lct - pre.ks[i].v <= max_key_hold_time}
              timedOut == /\ live # {}
                          /\ pre.start # NoneTime
                          /\ lct - pre.start > CombinationTimeout
          IN  /\ Cardinality({i \in 1..Len(key_states) :
                                key_states[i].k = lkey}) = 1
              /\ DictGet(key_states, lkey) = lct
              /\ stats.stuck_keys_cleaned
                   = pre.stats.stuck_keys_cleaned + Len(pre.ks) - Cardinality(live)
              /\ stats.combinations_timeout
                   = pre.stats.combinations_timeout + (IF timedOut THEN 1 ELSE 0)
              /\ (Cardinality(live) = Len(pre.ks) /\ ~timedOut)
                   => /\ key_states = DictPut(pre.ks, lkey, lct)
                      /\ combination_start_time = pre.start

\* the first of two held keys has been pressed again within the window: its
\* entry keeps its place and carries the new time, and no counter but the
\* press counter has changed
C22_Witness ==
  /\ Recorded
  /\ pre.ok
  /\ Len(pre.ks) = 2
  /\ pre.ks[1].k = lkey
  /\ pre.ks[1].v < lct
  /\ key_states = <<[k |-> lkey, v |-> lct], pre.ks[2]>>
  /\ stats.combinations_timeout = 0
  /\ stats.stuck_keys_cleaned = 0


\* C23: when the key set check_combinations evaluates equals the key sets
\* of several registered combinations, on_key_press returns the name of the
\* one registered first and of no other, and combinations_detected has
\* grown by exactly one.
C23_FirstMatchWins ==
  Returned =>
    \A i, j \in 1..Len(combinations) :
      (i < j /\ combinations[i].v = cur /\ combinations[j].v = cur)
        => /\ ret # combinations[j].k
           /\ (\A h \in 1..(i-1) : combinations[h].v # cur)
                => ret = combinations[i].k
           /\ stats.combinations_detected = pre.stats.combinations_detected + 1

\* ctrl+r, registered as 'quick' and then as 'popup', has been matched once
\* and 'quick' is returned
C23_Witness ==
  /\ Returned
  /\ cur = {"ctrl", "r"}
  /\ Len(combinations) = 3
  /\ combinations[1] = [k |-> "quick", v |-> {"ctrl", "r"}]
  /\ combinations[2] = [k |-> "popup", v |-> {"ctrl", "r"}]
  /\ ret = "quick"
  /\ pre.stats.combinations_detected = 0
  /\ stats.combinations_detected = 1


\* C24: at every moment at most one watchdog timer is pending or its tick
\* running; a timer is armed only by a running tick, one per tick, as the
\* tick's last step.
C24_OneTimer ==
  /\ [](Len(timers) + (IF Busy("M") THEN 1 ELSE 0) <= 1)
  /\ [][Len(timers') > Len(timers)
          => /\ pc["M"] = "m_sched"
             /\ pc'["M"] = "idle"
             /\ Len(timers') = Len(timers) + 1]_vars

\* a tick other than the first has armed the one pending timer
C24_Witness ==
  /\ pc["M"] = "idle"
  /\ Len(timers) = 1
  /\ timers[1] = now + CleanupInterval
  /\ now > InitTime


\* C25: an on_key_release for a key that is not in key_states returns at
\* once, raises nothing and leaves key_states, combination_start_time,
\* last_activity, the counters and the combination table as they are.
C25_ReleaseOfAbsentKey ==
  [][\A k \in PressKeys :
       (ReleaseBegin(k) /\ ~DictHas(key_states, k))
         => /\ pc' = pc
            /\ err' = err
            /\ key_states' = key_states
            /\ combination_start_time' = combination_start_time
            /\ last_activity' = last_activity
            /\ stats' = stats
            /\ combinations' = combinations]_vars

\* after a match has emptied key_states a release has been delivered: the
\* tracker is as the match left it and last_activity is still the time of
\* the last press
C25_Witness ==
  /\ phase = "listening"
  /\ pc["L"] = "idle"
  /\ stats.total_key_presses = 2
  /\ stats.combinations_detected = 1
  /\ prev = "None"
  /\ key_states = <<>>
  /\ combination_start_time = NoneTime
  /\ last_activity = InitTime
  /\ now > InitTime


\* cleanup_stuck_keys is running in thread th
InSweep(th) ==
  pc[th] \in {"cl_scan", "cl_load", "cl_store", "cl_del", "cl_chk", "cl_clr"}

\* C26: a step of cleanup_stuck_keys removes from key_states only entries
\* held longer than max_key_hold_time, adds no key, changes neither the
\* combination table nor the press, matched and timeout counters, and
\* changes combination_start_time only when key_states is empty.
C26_SweepFrame ==
  [][\A th \in Threads :
       (InSweep(th) /\ (pc'[th] # pc[th] \/ stuck'[th] # stuck[th]))
         => /\ \A i \in 1..Len(key_states) :
                 (\A j \in 1..Len(key_states') : key_states'[j] # key_states[i])
                   => now - key_states[i].v > max_key_hold_time
            /\ DictKeys(key_states') \subseteq DictKeys(key_states)
            /\ combinations' = combinations
            /\ stats'.total_key_presses = stats.total_key_presses
            /\ stats'.combinations_detected = stats.combinations_detected
            /\ stats'.combinations_timeout = stats.combinations_timeout
            /\ combination_start_time' # combination_start_time
                 => key_states = <<>>]_vars


\* C27: when every operation runs to its end before another thread steps,
\* last_activity is never earlier than the press time of a held key (but
\* between lines 289 and 290 of a press), and with max_key_hold_time at
\* most 5.0 s the watchdog never finds a key held when its inactivity test
\* succeeds and never calls force_reset.
C27_SerialNoWatchdogReset ==
  /\ pc["L"] # "p_la"
       => \A i \in 1..Len(key_states) : key_states[i].v <= last_activity
  /\ max_key_hold_time <= InactivityLimit
       => /\ ~InReset("M")
          /\ pc["M"] = "m_ks" => key_states = <<>>

\* with max_key_hold_time 2.0 s the inactivity test of a tick has succeeded
\* and key_states is empty, a sweep having evicted the key that was held
C27_Witness ==
  /\ max_key_hold_time <= InactivityLimit
  /\ pc["M"] = "m_ks"
  /\ key_states = <<>>
  /\ evicted >= 1
  /\ stats.combinations_detected = 0
  /\ stats.combinations_timeout = 0


\* C28: at most one popup worker is between its start and the end of its
\* popup at any time: a second 'popup' match starts no popup worker while
\* an earlier one is fetching its context, generating or showing its window.
C28_OnePopupWorker ==
  workers["ctx"] + workers["gen"] + workers["popup"] <= 1


\* C29: a matched 'quick' or 'popup' combination handled less than
\* completion_cooldown after the last accepted completion starts no worker
\* thread and changes neither last_completion_time nor the request
\* counters; last_completion_time changes only when a completion is
\* accepted, to the time of that match, which is at least
\* completion_cooldown after the one before and starts exactly one worker;
\* and the tracker has counted every match handed to handle_completion,
\* dropped or not, in combinations_detected.
C29_Cooldown ==
  /\ [][(pc["L"] = "p_ret" /\ pc'["L"] # "p_ret"
          /\ ret \in {"quick", "popup"}
          /\ now - last_completion_time < CompletionCooldown)
         => /\ workers' = workers
            /\ last_completion_time' = last_completion_time
            /\ app' = app]_vars
  /\ [][last_completion_time' # last_completion_time
         => /\ pc["L"] = "p_ret"
            /\ ret \in {"quick", "popup"}
            /\ last_completion_time' = now
            /\ now - last_completion_time >= CompletionCooldown
            /\ workers' = Started(IF ret = "popup" THEN "ctx" ELSE "run")
            /\ app'.quick_requests + app'.popup_requests
                 = app.quick_requests + app.popup_requests + 1]_vars
  /\ [][(app'.quick_requests # app.quick_requests
          \/ app'.popup_requests # app.popup_requests
          \/ \E s \in {"run", "ctx"} : workers'[s] > workers[s])
         => last_completion_time' = now
            /\ last_completion_time' # last_completion_time]_vars
  /\ [](pc["L"] = "p_ret" /\ ret \in {"quick", "popup"}
          => stats.combinations_detected
               = pre.stats.combinations_detected + 1)

\* three matches and no reset: two were accepted and one was dropped
C29_Witness ==
  /\ pc["L"] = "idle"
  /\ stats.combinations_detected = 3
  /\ app.key_resets = 0
  /\ app.quick_requests + app.popup_requests = 2


\* C30: a press or release delivered while popup_active is true returns at
\* once: it changes nothing of the tracker and dispatches no handler; and
\* popup_active goes from true to false only in a step of a popup worker
\* (the error path of show_popup_options or the selection callback).
C30_PopupGate ==
  /\ [][(popup_active /\ pc["L"] = "idle")
         => /\ pc'["L"] = "idle"
            /\ lkey' = lkey
            /\ ret' = ret
            /\ stats'.total_key_presses = stats.total_key_presses
            /\ stats'.combinations_detected = stats.combinations_detected
            /\ stats'.combinations_timeout = stats.combinations_timeout
            /\ app' = app
            /\ (pc'["M"] = pc["M"] /\ pc'["P"] = pc["P"]
                  /\ pc["M"] \notin {"cl_del", "cl_store"})
                 => (key_states' = key_states
                     /\ combination_start_time' = combination_start_time
                     /\ stats' = stats)]_vars
  /\ [][(popup_active /\ ~popup_active')
         => (workers'["gen"] < workers["gen"]
             \/ workers'["popup"] < workers["popup"])]_vars

====
